---- MODULE Spec2Model ----
(***************************************************************************)
(* Model of src/src/models.py: Book, BookCollection, IndexDict, Library.    *)
(*                                                                          *)
(* A Python value is a record with a cls field naming its class.  A Book   *)
(* carries its five attributes; ISBN strings, author strings and genre     *)
(* strings are numbered 1..Max*, years are the integers 1..MaxYear.         *)
(* The Library is single-threaded, so every public method is one action.   *)
(***************************************************************************)
EXTENDS Integers, Sequences, FiniteSets

\* ---- bounds -------------------------------------------------------------
MaxIsbn == 2
MaxAuthor == 2
MaxYear == 2
MaxGenre == 2
MaxOps == 3
MaxHeld == 2
MaxIndexOps == 2

Isbns == 1..MaxIsbn
Authors == 1..MaxAuthor
Years == 1..MaxYear
Genres == 1..MaxGenre

\* ---- values -------------------------------------------------------------
\* The title and the genre of the Books handed to the Library.  No method of
\* BookCollection, IndexDict or Library reads the title; it is the title of
\* the ISBN.  The genre is spread over the (author, year) pairs so that a
\* genre is shared by Books of different authors and of different years, and
\* every author and every year has Books of different genres.
TitleOf(isbn) == isbn
GenreOf(author, year) == 1 + ((author + year) % MaxGenre)

\* Book.__init__: the Book objects handed to the Library, one for every
\* isbn, author and year.
Book ==
  {[cls |-> "Book", title |-> TitleOf(i), author |-> a, year |-> y,
    genre |-> GenreOf(a, y), isbn |-> i] : i \in Isbns, a \in Authors, y \in Years}

\* Python's None.
None == [cls |-> "NoneType"]

\* An ISBN string as a Python value.
Str(i) == [cls |-> "str", val |-> i]

\* A Python int.
PyInt(i) == [cls |-> "int", val |-> i]

\* Values that are not Book objects: strings and None.
NonBook == {Str(i) : i \in Isbns} \cup {None}

\* isinstance(x, Book)
isBook(x) == x.cls = "Book"

\* Book.__eq__: equal iff the other is a Book with the same isbn.
Book_eq(self, other) ==
  IF ~isBook(other) THEN FALSE ELSE self.isbn = other.isbn

\* ---- Python dict and list primitives ------------------------------------
\* d[k] = v
DictSet(d, k, v) == [x \in DOMAIN d \cup {k} |-> IF x = k THEN v ELSE d[x]]

\* del d[k]
DictDel(d, k) == [x \in DOMAIN d \ {k} |-> d[x]]

\* list.pop(i) leaves the list without its i-th element (1-based here).
ListPop(l, i) == SubSeq(l, 1, i - 1) \o SubSeq(l, i + 1, Len(l))

\* item in list: some element compares equal (Book.__eq__).
ListContains(l, item) == \E i \in 1..Len(l) : Book_eq(l[i], item)

\* list.remove(item): drops the first element that compares equal.
ListRemove(l, item) ==
  LET i == CHOOSE j \in 1..Len(l) :
             /\ Book_eq(l[j], item)
             /\ \A k \in 1..(j - 1) : ~Book_eq(l[k], item)
  IN ListPop(l, i)

\* ---- BookCollection -----------------------------------------------------
\* Variant of BookCollection.add without the isinstance check.
BookCollection_add_unchecked(bs, book) ==
  [exc |-> "none", books |-> Append(bs, book)]

\* BookCollection.add: type check, then append.
BookCollection_add(bs, book) ==
  IF ~isBook(book)
  THEN [exc |-> "TypeError", books |-> bs]
  ELSE [exc |-> "none", books |-> Append(bs, book)]

\* The for loop of BookCollection.remove, from position i on.
RECURSIVE BookCollection_remove_loop(_, _, _)
BookCollection_remove_loop(bs, isbn, i) ==
  IF i > Len(bs)
  THEN [ret |-> FALSE, books |-> bs]
  ELSE IF bs[i].isbn = isbn
       THEN [ret |-> TRUE, books |-> ListPop(bs, i)]
       ELSE BookCollection_remove_loop(bs, isbn, i + 1)

\* Variant of BookCollection.remove that pops the last Book with the ISBN
\* instead of the first.
BookCollection_remove_last(bs, isbn) ==
  IF \E i \in 1..Len(bs) : bs[i].isbn = isbn
  THEN LET i == CHOOSE j \in 1..Len(bs) :
                  /\ bs[j].isbn = isbn
                  /\ \A k \in (j + 1)..Len(bs) : bs[k].isbn # isbn
       IN [ret |-> TRUE, books |-> ListPop(bs, i)]
  ELSE [ret |-> FALSE, books |-> bs]

\* BookCollection.remove
BookCollection_remove(bs, isbn) == BookCollection_remove_loop(bs, isbn, 1)

\* Variant of BookCollection.remove_at_index whose range check has no lower
\* bound: a negative index reaches list.pop, which counts from the end and
\* raises IndexError below -len.
BookCollection_remove_at_index_no_lower(bs, index) ==
  IF index < Len(bs)
  THEN IF index >= 0
       THEN [ret |-> bs[index + 1], books |-> ListPop(bs, index + 1)]
       ELSE IF Len(bs) + index >= 0
            THEN [ret |-> bs[Len(bs) + index + 1],
                  books |-> ListPop(bs, Len(bs) + index + 1)]
            ELSE [ret |-> [cls |-> "IndexError"], books |-> bs]
  ELSE [ret |-> None, books |-> bs]

\* BookCollection.remove_at_index; index is 0-based as in Python, the
\* positions of a sequence are 1-based.
BookCollection_remove_at_index(bs, index) ==
  IF 0 <= index /\ index < Len(bs)
  THEN [ret |-> bs[index + 1], books |-> ListPop(bs, index + 1)]
  ELSE [ret |-> None, books |-> bs]

\* BookCollection.__contains__
BookCollection_contains(bs, item) ==
  IF isBook(item)
  THEN ListContains(bs, item)
  ELSE IF item.cls = "str"
       THEN \E i \in 1..Len(bs) : bs[i].isbn = item.val
       ELSE FALSE

\* BookCollection.__len__
BookCollection_len(bs) == Len(bs)

\* ---- IndexDict ----------------------------------------------------------
\* IndexDict.__init__: three empty dicts.
IndexDict_init == [by_isbn |-> <<>>, by_author |-> <<>>, by_year |-> <<>>]

\* The "create the bucket if absent, then append" step of add_book.
BucketAppend(d, k, book) ==
  LET d1 == IF k \notin DOMAIN d THEN DictSet(d, k, <<>>) ELSE d
  IN DictSet(d1, k, Append(d1[k], book))

\* Variant of IndexDict.add_book that keeps an existing ISBN entry
\* (setdefault instead of assignment).
IndexDict_add_book_keep_first(idx, book) ==
  IF ~isBook(book)
  THEN [exc |-> "AttributeError", idx |-> idx]
  ELSE [exc |-> "none",
        idx |-> [by_isbn |-> IF book.isbn \in DOMAIN idx.by_isbn
                             THEN idx.by_isbn
                             ELSE DictSet(idx.by_isbn, book.isbn, book),
                 by_author |-> BucketAppend(idx.by_author, book.author, book),
                 by_year |-> BucketAppend(idx.by_year, book.year, book)]]

\* IndexDict.add_book; reading book.isbn of a non-Book raises
\* AttributeError before anything is written.
IndexDict_add_book(idx, book) ==
  IF ~isBook(book)
  THEN [exc |-> "AttributeError", idx |-> idx]
  ELSE [exc |-> "none",
        idx |-> [by_isbn |-> DictSet(idx.by_isbn, book.isbn, book),
                 by_author |-> BucketAppend(idx.by_author, book.author, book),
                 by_year |-> BucketAppend(idx.by_year, book.year, book)]]

\* Variant of the bucket step that leaves a bucket in place when it becomes
\* empty.
BucketRemove_keep_empty(d, k, book) ==
  IF k \in DOMAIN d
  THEN IF ListContains(d[k], book)
       THEN DictSet(d, k, ListRemove(d[k], book))
       ELSE d
  ELSE d

\* The bucket step of remove_book: remove the first equal Book from the
\* bucket of key k, and delete the bucket when it becomes empty.
BucketRemove(d, k, book) ==
  IF k \in DOMAIN d
  THEN IF ListContains(d[k], book)
       THEN LET l == ListRemove(d[k], book)
            IN IF l = <<>> THEN DictDel(d, k) ELSE DictSet(d, k, l)
       ELSE d
  ELSE d

\* IndexDict.get_by_author: dict.get(author, []).
IndexDict_get_by_author(idx, author) ==
  IF author \in DOMAIN idx.by_author THEN idx.by_author[author] ELSE <<>>

\* Variant of IndexDict.remove_book that reports whether the author bucket
\* lost a Book instead of whether the ISBN entry was deleted.
IndexDict_remove_book_ret_bucket(idx, book) ==
  [ret |-> ListContains(IndexDict_get_by_author(idx, book.author), book),
   idx |-> [by_isbn |-> IF book.isbn \in DOMAIN idx.by_isbn
                        THEN DictDel(idx.by_isbn, book.isbn)
                        ELSE idx.by_isbn,
            by_author |-> BucketRemove(idx.by_author, book.author, book),
            by_year |-> BucketRemove(idx.by_year, book.year, book)]]

\* Variant of IndexDict.remove_book without the year-index step.
IndexDict_remove_book_skip_year(idx, book) ==
  [ret |-> book.isbn \in DOMAIN idx.by_isbn,
   idx |-> [by_isbn |-> IF book.isbn \in DOMAIN idx.by_isbn
                        THEN DictDel(idx.by_isbn, book.isbn)
                        ELSE idx.by_isbn,
            by_author |-> BucketRemove(idx.by_author, book.author, book),
            by_year |-> idx.by_year]]

\* IndexDict.remove_book
IndexDict_remove_book(idx, book) ==
  [ret |-> book.isbn \in DOMAIN idx.by_isbn,
   idx |-> [by_isbn |-> IF book.isbn \in DOMAIN idx.by_isbn
                        THEN DictDel(idx.by_isbn, book.isbn)
                        ELSE idx.by_isbn,
            by_author |-> BucketRemove(idx.by_author, book.author, book),
            by_year |-> BucketRemove(idx.by_year, book.year, book)]]

\* IndexDict.get_by_isbn: dict.get(isbn), None when absent.
IndexDict_get_by_isbn(idx, isbn) ==
  IF isbn \in DOMAIN idx.by_isbn THEN idx.by_isbn[isbn] ELSE None

\* IndexDict.get_by_year: dict.get(year, []).
IndexDict_get_by_year(idx, year) ==
  IF year \in DOMAIN idx.by_year THEN idx.by_year[year] ELSE <<>>

\* IndexDict.__len__
IndexDict_len(idx) == Cardinality(DOMAIN idx.by_isbn)

\* ---- Library ------------------------------------------------------------
\* Library.books: the list held by the BookCollection.
VARIABLE books
\* Library.indexes: the three dicts of the IndexDict.
VARIABLE indexes
\* The calls of add_book and remove_book made so far, with their outcomes.
VARIABLE trace

vars == <<books, indexes, trace>>

\* Library.__init__
Init ==
  /\ books = <<>>
  /\ indexes = IndexDict_init
  /\ trace = <<>>

\* Library.add_book as a function of the state: books.add, then
\* indexes.add_book unless books.add raised.
Library_add_book(bs, idx, book) ==
  LET a == BookCollection_add(bs, book)
  IN IF a.exc # "none"
     THEN [ret |-> a.exc, books |-> a.books, indexes |-> idx]
     ELSE LET b == IndexDict_add_book(idx, book)
          IN [ret |-> IF b.exc # "none" THEN b.exc ELSE "None",
              books |-> a.books, indexes |-> b.idx]

\* Variant of Library.remove_book whose `return True` stands after the if
\* statement instead of inside it.
Library_remove_book_return_true(bs, idx, isbn) ==
  LET book == IndexDict_get_by_isbn(idx, isbn)
  IN IF isBook(book)
     THEN [ret |-> "True",
           books |-> BookCollection_remove(bs, isbn).books,
           indexes |-> IndexDict_remove_book(idx, book).idx]
     ELSE [ret |-> "True", books |-> bs, indexes |-> idx]

\* Variant of Library.remove_book that forgets the index.
Library_remove_book_skip_index(bs, idx, isbn) ==
  LET book == IndexDict_get_by_isbn(idx, isbn)
  IN IF isBook(book)
     THEN [ret |-> "True",
           books |-> BookCollection_remove(bs, isbn).books,
           indexes |-> idx]
     ELSE [ret |-> "False", books |-> bs, indexes |-> idx]

\* Library.remove_book as a function of the state.  A Book object is always
\* truthy (it defines neither __bool__ nor __len__); None is falsy.
Library_remove_book(bs, idx, isbn) ==
  LET book == IndexDict_get_by_isbn(idx, isbn)
  IN IF isBook(book)
     THEN [ret |-> "True",
           books |-> BookCollection_remove(bs, isbn).books,
           indexes |-> IndexDict_remove_book(idx, book).idx]
     ELSE [ret |-> "False", books |-> bs, indexes |-> idx]

\* Library.search_by_isbn
Library_search_by_isbn(isbn) == IndexDict_get_by_isbn(indexes, isbn)

\* Library.search_by_author
Library_search_by_author(author) == IndexDict_get_by_author(indexes, author)

\* Library.search_by_year
Library_search_by_year(year) == IndexDict_get_by_year(indexes, year)

\* The for loop of Library.search_by_genre, from position i on.
RECURSIVE search_by_genre_loop(_, _, _, _)
search_by_genre_loop(bs, genre, i, results) ==
  IF i > Len(bs)
  THEN results
  ELSE search_by_genre_loop(bs, genre, i + 1,
         IF bs[i].genre = genre THEN Append(results, bs[i]) ELSE results)

\* The values of the ISBN index, in key order.
RECURSIVE IsbnIndexValues(_, _)
IsbnIndexValues(d, k) ==
  IF k > MaxIsbn
  THEN <<>>
  ELSE (IF k \in DOMAIN d THEN <<d[k]>> ELSE <<>>) \o IsbnIndexValues(d, k + 1)

\* Variant of Library.search_by_genre that scans the ISBN index instead of
\* the collection.
Library_search_by_genre_indexed(genre) ==
  search_by_genre_loop(IsbnIndexValues(indexes.by_isbn, 1), genre, 1, <<>>)

\* Library.search_by_genre
Library_search_by_genre(genre) == search_by_genre_loop(books, genre, 1, <<>>)

\* Library.get_all_books
Library_get_all_books == books

\* The for loop of Library.get_statistics, from position i on: the sets of
\* authors, years and genres seen.
RECURSIVE get_statistics_loop(_, _, _)
get_statistics_loop(bs, i, acc) ==
  IF i > Len(bs)
  THEN acc
  ELSE get_statistics_loop(bs, i + 1,
         [authors |-> acc.authors \cup {bs[i].author},
          years |-> acc.years \cup {bs[i].year},
          genres |-> acc.genres \cup {bs[i].genre}])

\* min(years) and max(years) of a non-empty set of integers.
SetMin(S) == CHOOSE m \in S : \A x \in S : m <= x
SetMax(S) == CHOOSE m \in S : \A x \in S : m >= x

\* A Python pair of integers.
Tuple(a, b) == [cls |-> "tuple", first |-> a, second |-> b]

\* Variant of Library.get_statistics that counts through the index:
\* len(self.indexes) Books and the keys of the author index.
Library_get_statistics_indexed ==
  LET s == get_statistics_loop(books, 1,
             [authors |-> {}, years |-> {}, genres |-> {}])
  IN [total_books |-> IndexDict_len(indexes),
      unique_authors |-> Cardinality(DOMAIN indexes.by_author),
      year_range |-> IF s.years # {}
                     THEN Tuple(SetMin(s.years), SetMax(s.years))
                     ELSE None,
      genres |-> s.genres]

\* Library.get_statistics
Library_get_statistics ==
  LET s == get_statistics_loop(books, 1,
             [authors |-> {}, years |-> {}, genres |-> {}])
  IN [total_books |-> BookCollection_len(books),
      unique_authors |-> Cardinality(s.authors),
      year_range |-> IF s.years # {}
                     THEN Tuple(SetMin(s.years), SetMax(s.years))
                     ELSE None,
      genres |-> s.genres]

\* One call of a public method, recorded with its argument and outcome.
Call(op, arg, ret) == [op |-> op, arg |-> arg, ret |-> ret]

\* A call of Library.add_book(book).
AddBook(book) ==
  /\ Len(trace) < MaxOps
  /\ LET r == Library_add_book(books, indexes, book)
     IN /\ books' = r.books
        /\ indexes' = r.indexes
        /\ trace' = Append(trace, Call("add_book", book, r.ret))

\* A call of Library.remove_book(isbn).
RemoveBook(isbn) ==
  /\ Len(trace) < MaxOps
  /\ LET r == Library_remove_book(books, indexes, isbn)
     IN /\ books' = r.books
        /\ indexes' = r.indexes
        /\ trace' = Append(trace, Call("remove_book", Str(isbn), r.ret))

Next ==
  \/ \E book \in Book \cup NonBook : AddBook(book)
  \/ \E isbn \in Isbns : RemoveBook(isbn)

Spec == Init /\ [][Next]_vars

\* ---- properties ---------------------------------------------------------
\* The most recent call, and the one before it.
LastCall == trace[Len(trace)]
PrevCall == trace[Len(trace) - 1]

\* An add_book call that returned normally.
IsAdd(c) == c.op = "add_book" /\ c.ret = "None"

\* A mutation that succeeded: add_book returned, remove_book returned True.
IsSuccess(c) == IsAdd(c) \/ (c.op = "remove_book" /\ c.ret = "True")

\* How many positions of list l hold the very Book b (all attributes).
Occurrences(l, b) == Cardinality({i \in 1..Len(l) : l[i] = b})

\* Book b is stored in the ISBN index / its author bucket / its year bucket.
InIsbnIndex(b) ==
  b.isbn \in DOMAIN indexes.by_isbn /\ indexes.by_isbn[b.isbn] = b
InAuthorBucket(b) ==
  Occurrences(IndexDict_get_by_author(indexes, b.author), b) > 0
InYearBucket(b) ==
  Occurrences(IndexDict_get_by_year(indexes, b.year), b) > 0

\* The sub-sequence of the collection with a given author / year / genre.
BooksOfAuthor(a) == SelectSeq(books, LAMBDA b : b.author = a)
BooksOfYear(y) == SelectSeq(books, LAMBDA b : b.year = y)
BooksOfGenre(g) == SelectSeq(books, LAMBDA b : b.genre = g)

\* C1: after every operation of a sequence of add_book calls with Book
\* arguments (any ISBNs), len(library.books) equals len(library.indexes).
C1_LenBooksEqualsLenIndexes ==
  (\A i \in 1..Len(trace) : IsAdd(trace[i]) /\ isBook(trace[i].arg))
    => BookCollection_len(books) = IndexDict_len(indexes)

\* isbn of Book b is a key of the ISBN index.
IsbnIsKey(b) == b.isbn \in DOMAIN indexes.by_isbn

\* The Books that add_book has accepted so far.
AddedBooks == {trace[i].arg : i \in {j \in 1..Len(trace) : IsAdd(trace[j])}}

\* C2: after every successful mutation, every Book of the collection has its
\* isbn as a key of the ISBN index, and is exactly once in the bucket of its
\* author and exactly once in the bucket of its year.
C2_EveryBookIndexedOnce ==
  (trace # <<>> /\ IsSuccess(LastCall))
    => \A i \in 1..Len(books) :
         /\ IsbnIsKey(books[i])
         /\ Occurrences(IndexDict_get_by_author(indexes, books[i].author),
                        books[i]) = 1
         /\ Occurrences(IndexDict_get_by_year(indexes, books[i].year),
                        books[i]) = 1

\* C3: the three index maps agree on membership: a Book that is missing from
\* one of the ISBN index (key b.isbn), the bucket of its author and the
\* bucket of its year is missing from all three.
C3_IndexMapsAgree ==
  \A b \in AddedBooks :
    (~IsbnIsKey(b) \/ ~InAuthorBucket(b) \/ ~InYearBucket(b))
      => (~IsbnIsKey(b) /\ ~InAuthorBucket(b) /\ ~InYearBucket(b))

\* C4: every Book stored in the index (ISBN entry, author bucket or year
\* bucket) is also an element of the collection, as the same Book.
C4_IndexNeverSoleHolder ==
  \A b \in Book :
    (InIsbnIndex(b) \/ InAuthorBucket(b) \/ InYearBucket(b))
      => Occurrences(books, b) > 0

\* C5: after add_book(r) followed by remove_book(r.isbn), search_by_isbn
\* returns None and r is not in the collection (membership by Book.__eq__).
C5_AddThenRemove ==
  (/\ Len(trace) >= 2
   /\ IsAdd(PrevCall)
   /\ LastCall.op = "remove_book"
   /\ LastCall.arg = Str(PrevCall.arg.isbn))
    => /\ Library_search_by_isbn(PrevCall.arg.isbn) = None
       /\ ~BookCollection_contains(Library_get_all_books, PrevCall.arg)

\* C6: remove_book(isbn) with isbn not a key of the ISBN index returns False
\* and changes neither the collection nor any of the three index maps.
C6_RemoveAbsentIsNoop ==
  [][(/\ Len(trace') = Len(trace) + 1
      /\ trace'[Len(trace')].op = "remove_book"
      /\ trace'[Len(trace')].arg.val \notin DOMAIN indexes.by_isbn)
       => (/\ trace'[Len(trace')].ret = "False"
           /\ books' = books
           /\ indexes' = indexes)]_vars

\* A remove_book of an ISBN that has no index entry, called on a Library
\* that holds Books, has returned False.
C6_Witness ==
  /\ Len(trace) >= 2
  /\ LastCall.op = "remove_book"
  /\ LastCall.arg.val \notin DOMAIN indexes.by_isbn
  /\ LastCall.ret = "False"
  /\ books # <<>>
  /\ DOMAIN indexes.by_isbn # {}

\* C7: add_book(x) with x not a Book raises TypeError and changes neither
\* the collection nor any of the three index maps.
C7_AddNonBookRaises ==
  [][(/\ Len(trace') = Len(trace) + 1
      /\ trace'[Len(trace')].op = "add_book"
      /\ ~isBook(trace'[Len(trace')].arg))
       => (/\ trace'[Len(trace')].ret = "TypeError"
           /\ books' = books
           /\ indexes' = indexes)]_vars

\* add_book of a non-Book has raised TypeError on a Library that holds Books.
C7_Witness ==
  /\ Len(trace) >= 2
  /\ LastCall.op = "add_book"
  /\ ~isBook(LastCall.arg)
  /\ LastCall.ret = "TypeError"
  /\ books # <<>>
  /\ DOMAIN indexes.by_isbn # {}

\* C8: after add_book(r1) then add_book(r2) with r1.isbn = r2.isbn, the ISBN
\* index maps that isbn to r2 (search_by_isbn returns r2), and the collection
\* ends with r1, r2 in that order.
C8_DuplicateIsbnLastWriteWins ==
  (/\ Len(trace) >= 2
   /\ IsAdd(PrevCall)
   /\ IsAdd(LastCall)
   /\ PrevCall.arg.isbn = LastCall.arg.isbn)
    => /\ Library_search_by_isbn(LastCall.arg.isbn) = LastCall.arg
       /\ Len(Library_get_all_books) >= 2
       /\ Library_get_all_books[Len(books) - 1] = PrevCall.arg
       /\ Library_get_all_books[Len(books)] = LastCall.arg

\* Two different Books with one isbn have been added one after the other.
C8_Witness ==
  /\ Len(trace) >= 2
  /\ IsAdd(PrevCall)
  /\ IsAdd(LastCall)
  /\ PrevCall.arg.isbn = LastCall.arg.isbn
  /\ PrevCall.arg # LastCall.arg
  /\ Library_search_by_isbn(LastCall.arg.isbn) = LastCall.arg

\* C9: for every genre g, search_by_genre(g) is the collection filtered to
\* the Books of genre g, in the same order.
C9_SearchByGenreIsFilter ==
  \A g \in Genres : Library_search_by_genre(g) = BooksOfGenre(g)

\* A genre search has returned several Books but not the whole collection,
\* from a Library whose ISBN index has fewer entries than the collection.
C9_Witness ==
  \E g \in Genres :
    /\ Len(Library_search_by_genre(g)) >= 2
    /\ Len(Library_search_by_genre(g)) < Len(books)
    /\ IndexDict_len(indexes) < Len(books)

\* C10: search_by_author(a) is the collection filtered to author a, in the
\* same order, and search_by_year(y) is the collection filtered to year y.
C10_BucketsAreFilters ==
  /\ \A a \in Authors : Library_search_by_author(a) = BooksOfAuthor(a)
  /\ \A y \in Years : Library_search_by_year(y) = BooksOfYear(y)

\* C11: get_statistics reports total_books = the length of the collection,
\* unique_authors = the number of distinct authors in the collection, and
\* year_range = (least year, greatest year) of the collection, or None
\* exactly when the collection is empty.
C11_StatisticsMatchCollection ==
  LET s == Library_get_statistics
      n == Len(Library_get_all_books)
  IN /\ s.total_books = n
     /\ s.unique_authors = Cardinality({books[i].author : i \in 1..n})
     /\ (s.year_range = None) <=> (n = 0)
     /\ n > 0 =>
          /\ s.year_range.cls = "tuple"
          /\ \E i \in 1..n : books[i].year = s.year_range.first
          /\ \E i \in 1..n : books[i].year = s.year_range.second
          /\ \A i \in 1..n : /\ s.year_range.first <= books[i].year
                             /\ books[i].year <= s.year_range.second

\* The statistics of a collection with Books of two years, fewer authors
\* than Books, and fewer index entries than Books.
C11_Witness ==
  /\ Len(books) >= 2
  /\ Library_get_statistics.year_range # None
  /\ Library_get_statistics.year_range.first
       < Library_get_statistics.year_range.second
  /\ Library_get_statistics.unique_authors < Len(books)
  /\ IndexDict_len(indexes) < Len(books)

\* C12: remove_book(isbn) with isbn a key of the ISBN index returns True,
\* removes from the collection exactly the first Book with that isbn (all
\* other Books stay, in order; the length drops by one) and removes the
\* entry of isbn from the ISBN index.
C12_RemovePresentPopsFirst ==
  [][(/\ Len(trace') = Len(trace) + 1
      /\ trace'[Len(trace')].op = "remove_book"
      /\ trace'[Len(trace')].arg.val \in DOMAIN indexes.by_isbn)
       => LET isbn == trace'[Len(trace')].arg.val
          IN /\ trace'[Len(trace')].ret = "True"
             /\ Len(books') = Len(books) - 1
             /\ \E i \in 1..Len(books) :
                  /\ books[i].isbn = isbn
                  /\ \A k \in 1..(i - 1) : books[k].isbn # isbn
                  /\ \A k \in 1..(i - 1) : books'[k] = books[k]
                  /\ \A k \in (i + 1)..Len(books) : books'[k - 1] = books[k]
             /\ isbn \notin DOMAIN indexes'.by_isbn]_vars

\* remove_book has returned True on a collection that held two different
\* Books with the removed isbn: the second of them is what remains.
C12_Witness ==
  /\ Len(trace) >= 3
  /\ IsAdd(trace[Len(trace) - 2])
  /\ IsAdd(PrevCall)
  /\ LastCall.op = "remove_book"
  /\ LastCall.ret = "True"
  /\ trace[Len(trace) - 2].arg.isbn = LastCall.arg.val
  /\ PrevCall.arg.isbn = LastCall.arg.val
  /\ PrevCall.arg # trace[Len(trace) - 2].arg
  /\ books = <<PrevCall.arg>>

\* ---- the IndexDict on its own -------------------------------------------
\* A call of IndexDict.add_book(book).
IndexAddBook(book) ==
  /\ Len(trace) < MaxIndexOps
  /\ LET r == IndexDict_add_book(indexes, book)
     IN /\ indexes' = r.idx
        /\ trace' = Append(trace, Call("IndexDict.add_book", book, "None"))
  /\ UNCHANGED books

\* A call of IndexDict.remove_book(book).
IndexRemoveBook(book) ==
  /\ Len(trace) < MaxIndexOps
  /\ LET r == IndexDict_remove_book(indexes, book)
     IN /\ indexes' = r.idx
        /\ trace' = Append(trace, Call("IndexDict.remove_book", book,
                                       IF r.ret THEN "True" ELSE "False"))
  /\ UNCHANGED books

NextIndex ==
  \/ \E book \in Book : IndexAddBook(book)
  \/ \E book \in Book : IndexRemoveBook(book)

SpecIndex == Init /\ [][NextIndex]_vars

\* C13: no author key and no year key maps to an empty bucket, so
\* get_by_author(a) / get_by_year(y) is empty exactly when the key is absent.
C13_NoEmptyBuckets ==
  /\ \A a \in DOMAIN indexes.by_author : indexes.by_author[a] # <<>>
  /\ \A y \in DOMAIN indexes.by_year : indexes.by_year[y] # <<>>
  /\ \A a \in Authors :
       (IndexDict_get_by_author(indexes, a) = <<>>)
         <=> (a \notin DOMAIN indexes.by_author)
  /\ \A y \in Years :
       (IndexDict_get_by_year(indexes, y) = <<>>)
         <=> (y \notin DOMAIN indexes.by_year)

\* IndexDict.remove_book has taken the only Book out of the buckets of its
\* author and of its year, and both keys are gone.
C13_Witness ==
  /\ Len(trace) >= 2
  /\ PrevCall.op = "IndexDict.add_book"
  /\ LastCall.op = "IndexDict.remove_book"
  /\ LastCall.arg = PrevCall.arg
  /\ LastCall.ret = "True"
  /\ LastCall.arg.author \notin DOMAIN indexes.by_author
  /\ LastCall.arg.year \notin DOMAIN indexes.by_year

Indexes == (0 - MaxHeld - 1)..(MaxHeld + 1)

\* A call of BookCollection.add(book) on a collection of fewer than MaxHeld
\* Books; trace keeps the latest call only.
CollectionAdd(book) ==
  /\ Len(books) < MaxHeld
  /\ LET r == BookCollection_add(books, book)
     IN /\ books' = r.books
        /\ trace' = <<Call("BookCollection.add", book,
                           IF r.exc # "none" THEN r.exc ELSE "None")>>
  /\ UNCHANGED indexes

\* A call of BookCollection.remove_at_index(index).
CollectionRemoveAtIndex(index) ==
  /\ LET r == BookCollection_remove_at_index(books, index)
     IN /\ books' = r.books
        /\ trace' = <<Call("BookCollection.remove_at_index", PyInt(index), r.ret)>>
  /\ UNCHANGED indexes

NextCollection ==
  \/ \E book \in Book \cup NonBook : CollectionAdd(book)
  \/ \E index \in Indexes : CollectionRemoveAtIndex(index)

SpecCollection == Init /\ [][NextCollection]_vars

\* C15: remove_at_index(index) with 0 <= index < len removes and returns
\* the Book at that position and keeps the others in order; with any other
\* index it returns None and leaves the collection unchanged.
C15_RemoveAtIndex ==
  [][(trace' # <<>> /\ trace'[Len(trace')].op = "BookCollection.remove_at_index")
       => LET index == trace'[Len(trace')].arg.val
              ret == trace'[Len(trace')].ret
          IN IF 0 <= index /\ index < Len(books)
             THEN /\ ret = books[index + 1]
                  /\ Len(books') = Len(books) - 1
                  /\ \A k \in 1..index : books'[k] = books[k]
                  /\ \A k \in (index + 2)..Len(books) : books'[k - 1] = books[k]
             ELSE /\ ret = None
                  /\ books' = books]_vars

\* remove_at_index has returned None for a negative index on a collection
\* that holds Books.
C15_Witness ==
  /\ trace # <<>>
  /\ LastCall.op = "BookCollection.remove_at_index"
  /\ LastCall.arg.val < 0
  /\ LastCall.ret = None
  /\ books # <<>>

\* ---- the Library used with unique ISBNs ---------------------------------
\* A call of Library.add_book by a client that never adds a Book whose isbn
\* is currently a key of the ISBN index.
AddNewBook(book) ==
  /\ isBook(book) => book.isbn \notin DOMAIN indexes.by_isbn
  /\ AddBook(book)

NextUnique ==
  \/ \E book \in Book \cup NonBook : AddNewBook(book)
  \/ \E isbn \in Isbns : RemoveBook(isbn)

SpecUnique == Init /\ [][NextUnique]_vars

\* C16: when add_book is never called with an isbn that is currently an
\* index key, the isbns of the collection are pairwise distinct and are
\* exactly the keys of the ISBN index, every index entry is the Book of the
\* collection with that isbn, and every author (year) bucket holds exactly
\* the Books of the collection with that author (year), each once.
C16_UniqueIsbnsFullyConsistent ==
  /\ \A i, j \in 1..Len(books) : books[i].isbn = books[j].isbn => i = j
  /\ DOMAIN indexes.by_isbn = {books[i].isbn : i \in 1..Len(books)}
  /\ \A i \in 1..Len(books) : indexes.by_isbn[books[i].isbn] = books[i]
  /\ \A a \in Authors : \A b \in Book :
       /\ Occurrences(Library_search_by_author(a), b)
            = Occurrences(BooksOfAuthor(a), b)
       /\ Occurrences(Library_search_by_author(a), b) <= 1
  /\ \A y \in Years : \A b \in Book :
       /\ Occurrences(Library_search_by_year(y), b)
            = Occurrences(BooksOfYear(y), b)
       /\ Occurrences(Library_search_by_year(y), b) <= 1

\* An isbn has been added, removed and added again with another author and
\* year, next to a Book that stayed.
C16_Witness ==
  /\ Len(trace) >= 3
  /\ IsAdd(LastCall)
  /\ PrevCall.op = "remove_book"
  /\ PrevCall.ret = "True"
  /\ PrevCall.arg.val = LastCall.arg.isbn
  /\ IsAdd(trace[Len(trace) - 2])
  /\ trace[Len(trace) - 2].arg.isbn = LastCall.arg.isbn
  /\ trace[Len(trace) - 2].arg.author # LastCall.arg.author
  /\ trace[Len(trace) - 2].arg.year # LastCall.arg.year
  /\ books = <<LastCall.arg>>

\* C17: every key of the ISBN index is the isbn of at least one Book of the
\* collection, so len(indexes) <= len(books), and search_by_isbn never
\* returns a Book whose isbn is missing from the collection.
C17_IndexKeysAreInCollection ==
  /\ \A k \in DOMAIN indexes.by_isbn :
       \E i \in 1..Len(books) : books[i].isbn = k
  /\ IndexDict_len(indexes) <= BookCollection_len(books)
  /\ \A isbn \in Isbns :
       Library_search_by_isbn(isbn) # None
         => BookCollection_contains(Library_get_all_books,
                                    Str(Library_search_by_isbn(isbn).isbn))

\* Books that share an isbn have been added: the ISBN index has entries,
\* but fewer than the collection has Books.
C17_Witness ==
  /\ trace # <<>>
  /\ IsAdd(LastCall)
  /\ IndexDict_len(indexes) >= 1
  /\ IndexDict_len(indexes) < BookCollection_len(books)
  /\ Library_search_by_isbn(LastCall.arg.isbn) = LastCall.arg

\* C18: remove_book(isbn) returns True whenever the collection holds a Book
\* with that isbn, and then removes it.
C18_EveryHeldBookIsRemovable ==
  \A isbn \in Isbns :
    BookCollection_contains(Library_get_all_books, Str(isbn))
      => /\ Library_remove_book(books, indexes, isbn).ret = "True"
         /\ Len(Library_remove_book(books, indexes, isbn).books)
              = Len(books) - 1

====
